---- MODULE Spec2Model ----
(***************************************************************************)
(* lwan request processing (src/lwan-request.c): the request entry point   *)
(* lwan_process_request with its parsing stages, and the response header   *)
(* encoder lwan_prepare_response_header.                                   *)
(*                                                                         *)
(* Bytes are their ASCII codes.  Pointers are addresses: NULL is 0, the    *)
(* stack is the mapped range StackLo..MemHi and the local array `buffer`   *)
(* of lwan_process_request sits at BufAddr inside it.  Stack bytes that    *)
(* the program never wrote hold an arbitrary value (mem.g).                *)
(***************************************************************************)
EXTENDS Integers, Sequences, FiniteSets, TLC

----------------------------------------------------------------------------
\* Bounds of the model.

\* sizeof(buffer) of lwan_process_request, 6 * 1024 in the source, scaled down
BufSize == 72
\* mapped stack bytes below `buffer`
Below == 9
\* mapped stack bytes above the reach of the bounded reads
Above == 4
\* lowest mapped address; the addresses NULL+1 .. StackLo-1 are not mapped
StackLo == 2
\* how many earlier requests a request object may have served
MaxServed == 1

NULL == 0
BufAddr == StackLo + Below
MemHi == BufAddr + 2 * BufSize + Above
Mapped(a) == a >= StackLo /\ a <= MemHi

----------------------------------------------------------------------------
\* Bytes and byte strings.

NUL == 0
TAB == 9
LF == 10
CR == 13
SP == 32
SLASH == 47
Ch0 == 48
Ch1 == 49
COLON == 58
ChH == 72
Chc == 99
Chk == 107

Min(a, b) == IF a <= b THEN a ELSE b
Max(a, b) == IF a >= b THEN a ELSE b

\* c | 0x20
Or20(c) == IF (c \div 32) % 2 = 1 THEN c ELSE c + 32

Prefix(s, n) == SubSeq(s, 1, Min(n, Len(s)))

\* " \t\r\n"
Whitespace == {SP, TAB, CR, LF}
\* HTTP_STR_GET, HTTP_STR_HEAD: the four bytes STRING_SWITCH compares
HTTP_STR_GET == <<71, 69, 84, 32>>
HTTP_STR_HEAD == <<72, 69, 65, 68>>
\* sizeof("HTTP/X.X")
SizeofHttpXX == 9

\* the allow-listed header names; STRING_SWITCH compares the first four bytes
HdrConnection == <<67, 111, 110, 110, 101, 99, 116, 105, 111, 110>>
HdrHost == <<72, 111, 115, 116>>
HdrIfModifiedSince == <<73, 102, 45, 77, 111, 100, 105, 102, 105, 101, 100, 45, 83, 105, 110, 99, 101>>
HdrRange == <<82, 97, 110, 103, 101>>
HdrReferer == <<82, 101, 102, 101, 114, 101, 114>>
HdrCookie == <<67, 111, 111, 107, 105, 101>>
HeaderNames == <<HdrConnection, HdrHost, HdrIfModifiedSince, HdrRange, HdrReferer, HdrCookie>>
\* sizeof(int32_t)
ProbeLen == 4

----------------------------------------------------------------------------
\* Memory: data are the bytes of `buffer` the program has written (by read()
\* and by buffer[bytes_read] = '\0'), zero the other addresses it has set to
\* NUL, g the value of every byte it has not written.

Rd(m, a) ==
    LET i == a - BufAddr + 1
    IN  IF i >= 1 /\ i <= Len(m.data) THEN m.data[i]
        ELSE IF a \in m.zero THEN NUL ELSE m.g

Wr0(m, a) ==
    LET i == a - BufAddr + 1
    IN  IF i >= 1 /\ i <= Len(m.data)
        THEN [m EXCEPT !.data = [m.data EXCEPT ![i] = NUL]]
        ELSE [m EXCEPT !.zero = m.zero \cup {a}]

\* the addresses [lo, hi] an operation has touched; NoAcc when none
NoAcc == [lo |-> MemHi + 1, hi |-> NULL]
Touch(acc, a) == [lo |-> Min(acc.lo, a), hi |-> Max(acc.hi, a)]
Join(a, b) == [lo |-> Min(a.lo, b.lo), hi |-> Max(a.hi, b.hi)]

\* The scan of memchr (stopAtNul = FALSE) and strchr (stopAtNul = TRUE): the
\* first address in a..last holding c.  res is NULL when there is none, fault
\* is set when the scan leaves the mapped memory, hi is the last address read.
\* The scan ends at the first address that is unmapped, holds c or, for
\* strchr, holds NUL.
Scan(m, a, c, last, stopAtNul) ==
    LET ends(i) == ~Mapped(i) \/ Rd(m, i) = c \/ (stopAtNul /\ Rd(m, i) = NUL)
        at(i) == IF ~Mapped(i) THEN [res |-> NULL, fault |-> TRUE, hi |-> i]
                 ELSE IF Rd(m, i) = c THEN [res |-> i, fault |-> FALSE, hi |-> i]
                 ELSE [res |-> NULL, fault |-> FALSE, hi |-> i]
    IN  IF \E i \in a..last : ends(i)
        THEN at(CHOOSE i \in a..last : ends(i) /\ \A j \in a..(i - 1) : ~ends(j))
        ELSE [res |-> NULL, fault |-> FALSE, hi |-> Max(last, a - 1)]

memchr(m, a, c, n) == Scan(m, a, c, a + n - 1, FALSE)
strchr(m, a, c) == Scan(m, a, c, MemHi + 1, TRUE)

\* the four bytes STRING_SWITCH(p) loads
Probe(m, p) == [i \in 1..ProbeLen |-> Rd(m, p + i - 1)]

\* the NUL-terminated string at address a
CStr(m, a) ==
    LET n == Scan(m, a, NUL, MemHi + 1, FALSE).hi - a
    IN  [i \in 1..n |-> Rd(m, a + i - 1)]

----------------------------------------------------------------------------
\* The parsing stages of lwan_process_request.

RECURSIVE IgnoreLeadingWhitespace(_, _)
IgnoreLeadingWhitespace(m, b) ==
    IF Rd(m, b) # NUL /\ Rd(m, b) \in Whitespace
    THEN IgnoreLeadingWhitespace(m, b + 1)
    ELSE b

\* IdentifyHttpMethod with the cursor of a HEAD request advanced like that of
\* a GET request
IdentifyHttpMethod_SameSkip(m, req, b) ==
    IF Probe(m, b) = HTTP_STR_GET
    THEN [p |-> b + 4, req |-> [req EXCEPT !.method = "HTTP_GET"]]
    ELSE IF Probe(m, b) = HTTP_STR_HEAD
    THEN [p |-> b + 4, req |-> [req EXCEPT !.method = "HTTP_HEAD"]]
    ELSE [p |-> NULL, req |-> req]

IdentifyHttpMethod(m, req, b) ==
    IF Probe(m, b) = HTTP_STR_GET
    THEN [p |-> b + 4, req |-> [req EXCEPT !.method = "HTTP_GET"]]
    ELSE IF Probe(m, b) = HTTP_STR_HEAD
    THEN [p |-> b + 5, req |-> [req EXCEPT !.method = "HTTP_HEAD"]]
    ELSE [p |-> NULL, req |-> req]

IdentifyHttpPath(m, req, b, limit) ==
    LET \* from *space = '\0' on
        version(end_of_line, space, m2, scanned) ==
            LET ver == IF Rd(m2, space + 8) = Ch0 THEN "HTTP_1_0" ELSE "HTTP_1_1"
                req3 == [req EXCEPT !.http_version = ver, !.url = b, !.url_len = space - b]
                acc == Touch(scanned, space)
            IN  IF Rd(m2, space + 6) # Ch1
                THEN [p |-> NULL, m |-> m2, req |-> req, acc |-> acc, fault |-> FALSE]
                ELSE IF Rd(m2, b) # SLASH
                THEN [p |-> NULL, m |-> m2, req |-> req3, acc |-> acc, fault |-> FALSE]
                ELSE [p |-> end_of_line + 1, m |-> m2, req |-> req3, acc |-> acc,
                      fault |-> FALSE]
        \* from *end_of_line = '\0' on
        line(end_of_line, space, m1, scanned) ==
            IF Rd(m1, space + 1) # ChH
            THEN [p |-> NULL, m |-> m1, req |-> req,
                  acc |-> Touch(scanned, space + 1), fault |-> FALSE]
            ELSE version(end_of_line, space, Wr0(m1, space), scanned)
        found(sc) ==
            IF sc.fault \/ sc.res = NULL
            THEN [p |-> NULL, m |-> m, req |-> req, acc |-> [lo |-> b, hi |-> sc.hi],
                  fault |-> sc.fault]
            ELSE line(sc.res, sc.res - SizeofHttpXX, Wr0(m, sc.res), [lo |-> b, hi |-> sc.hi])
    IN  found(memchr(m, b, CR, limit))

\* STRING_SWITCH(p) of _parse_headers: the index in HeaderNames of the case
\* the four bytes at p select, 0 for none
MatchName(m, p) ==
    IF \E k \in 1..Len(HeaderNames) : Probe(m, p) = Prefix(HeaderNames[k], ProbeLen)
    THEN CHOOSE k \in 1..Len(HeaderNames) : Probe(m, p) = Prefix(HeaderNames[k], ProbeLen)
    ELSE 0

\* MATCH_HEADER(hdr) with sizeof(hdr) - 1 = n: matched is FALSE where the
\* macro jumps to did_not_match; p is the cursor it leaves behind.
MatchHeader(m, p, n) ==
    LET colon == p + n
        val == colon + 2
        \* from end = strchr(p, '\r') on
        value(sc) ==
            IF sc.res = NULL
            THEN [matched |-> FALSE, p |-> val, m |-> m, value |-> NULL,
                  acc |-> [lo |-> colon, hi |-> sc.hi], fault |-> sc.fault]
            ELSE [matched |-> Rd(Wr0(m, sc.res), sc.res + 1) = LF, p |-> sc.res + 1,
                  m |-> Wr0(m, sc.res), value |-> val,
                  acc |-> [lo |-> colon, hi |-> sc.res + 1], fault |-> FALSE]
    IN  IF Rd(m, colon) # COLON
        THEN [matched |-> FALSE, p |-> colon + 1, m |-> m, value |-> NULL,
              acc |-> [lo |-> colon, hi |-> colon], fault |-> FALSE]
        ELSE IF Rd(m, colon + 1) # SP
        THEN [matched |-> FALSE, p |-> val, m |-> m, value |-> NULL,
              acc |-> [lo |-> colon, hi |-> colon + 1], fault |-> FALSE]
        ELSE value(strchr(m, val, CR))

\* One pass through the body of the for loop of _parse_headers, entered with
\* *p # 0, and the loop's increment buffer = ++p.  status is "break" when the
\* body leaves the loop, "fault" when a scan leaves the mapped memory and
\* "next" otherwise; p is then the incremented cursor (NULL + 1 after a
\* strchr that found no '\n').
HeaderIter(m, req, p, buffer_end) ==
    LET probed == [lo |-> p, hi |-> p + ProbeLen - 1]
        \* did_not_match: p = strchr(p, '\n'), and the increment
        next_line(m1, req1, p1, acc1, sc) ==
            [status |-> IF sc.fault THEN "fault" ELSE "next",
             p |-> sc.res + 1, m |-> m1, req |-> req1,
             acc |-> Join(acc1, [lo |-> p1, hi |-> sc.hi])]
        did_not_match(m1, req1, p1, acc1) ==
            next_line(m1, req1, p1, acc1, strchr(m1, p1, LF))
        \* the case of the switch for HeaderNames[k]
        case(k, mh) ==
            IF mh.fault
            THEN [status |-> "fault", p |-> mh.p, m |-> mh.m, req |-> req,
                  acc |-> Join(probed, mh.acc)]
            ELSE did_not_match(
                    mh.m,
                    IF mh.matched /\ k = 1
                    THEN [req EXCEPT !.header_connection = Or20(Rd(mh.m, mh.value))]
                    ELSE req,
                    mh.p, Join(probed, mh.acc))
        switch(k) ==
            IF k = 0 THEN did_not_match(m, req, p, probed)
            ELSE case(k, MatchHeader(m, p, Len(HeaderNames[k])))
    IN  IF p + ProbeLen >= buffer_end
        THEN [status |-> "break", p |-> p, m |-> m, req |-> req,
              acc |-> [lo |-> p, hi |-> p]]
        ELSE switch(MatchName(m, p))

RECURSIVE ParseHeaders(_, _, _, _, _)
\* _parse_headers from the loop condition on.  status is "ok" when the
\* function returns ret, "invalid" when the loop condition dereferences a
\* cursor outside the mapped memory (ret is then the value of `buffer`),
\* "fault" when a scan leaves the mapped memory.
ParseHeaders(m, req, p, buffer_end, acc) ==
    IF ~Mapped(p)
    THEN [status |-> "invalid", ret |-> p, m |-> m, req |-> req, acc |-> acc]
    ELSE IF Rd(m, p) = NUL
    THEN [status |-> "ok", ret |-> p, m |-> m, req |-> req, acc |-> Touch(acc, p)]
    ELSE LET body(it) ==
                 IF it.status = "break"
                 THEN [status |-> "ok", ret |-> p, m |-> m, req |-> req,
                       acc |-> Touch(acc, p)]
                 ELSE IF it.status = "fault"
                 THEN [status |-> "fault", ret |-> p, m |-> it.m, req |-> it.req,
                       acc |-> Join(acc, it.acc)]
                 ELSE ParseHeaders(it.m, it.req, it.p, buffer_end, Join(acc, it.acc))
         IN  body(HeaderIter(m, req, p, buffer_end))

ComputeFlags(req) ==
    IF req.http_version = "HTTP_1_1"
    THEN [req EXCEPT !.is_keep_alive = (req.header_connection # Chc)]
    ELSE [req EXCEPT !.is_keep_alive = (req.header_connection = Chk)]

----------------------------------------------------------------------------
\* Routing, handlers and responses: the collaborators of lwan_process_request.

HTTP_OK == 200
HTTP_BAD_REQUEST == 400
HTTP_NOT_FOUND == 404
HTTP_NOT_ALLOWED == 405
HTTP_TOO_LARGE == 413

\* the prefixes registered in l->url_map_trie: "/a"
UrlPrefixes == {<<47, 97>>}

IsPrefixOf(pre, s) == Len(pre) <= Len(s) /\ SubSeq(s, 1, Len(pre)) = pre

\* lwan_trie_lookup_prefix: the longest registered prefix of the string s,
\* <<>> (no url_map) when there is none
LookupPrefix(s) ==
    LET ms == {pre \in UrlPrefixes : IsPrefixOf(pre, s)}
    IN  IF ms = {} THEN <<>>
        ELSE CHOOSE pre \in ms : \A q \in ms : Len(q) <= Len(pre)

\* the statuses a handler callback returns
HandlerStatuses == {HTTP_OK, HTTP_NOT_FOUND}

----------------------------------------------------------------------------
\* The requests a peer sends.

CRLF == <<CR, LF>>
ColonSp == <<COLON, SP>>
\* "GET ", "HEAD ", "HEAD1", "POST "
TokGet == <<71, 69, 84, 32>>
TokHead == <<72, 69, 65, 68, 32>>
TokHead1 == <<72, 69, 65, 68, 49>>
TokPost == <<80, 79, 83, 84, 32>>
\* " HTTP/1.1", " HTTP/1.0", " HTTP/1.9", " HTTP/2.0"
Ver11 == <<32, 72, 84, 84, 80, 47, 49, 46, 49>>
Ver10 == <<32, 72, 84, 84, 80, 47, 49, 46, 48>>
Ver19 == <<32, 72, 84, 84, 80, 47, 49, 46, 57>>
Ver20 == <<32, 72, 84, 84, 80, 47, 50, 46, 48>>
\* "/", "/a", "/ab", "b"
UrlRoot == <<47>>
UrlA == <<47, 97>>
UrlAb == <<47, 97, 98>>
UrlB == <<98>>
\* "X-Custom", "If-M"
NameXCustom == <<88, 45, 67, 117, 115, 116, 111, 109>>
NameIfM == <<73, 102, 45, 77>>
\* "close", "Keep-Alive", "KEEP-ALIVE", "keep-alive", "foo", "1", "a"
ValClose == <<99, 108, 111, 115, 101>>
ValKeepAlive == <<75, 101, 101, 112, 45, 65, 108, 105, 118, 101>>
ValKEEPALIVE == <<75, 69, 69, 80, 45, 65, 76, 73, 86, 69>>
ValKeepalive == <<107, 101, 101, 112, 45, 97, 108, 105, 118, 101>>
ValFoo == <<102, 111, 111>>
Val1 == <<49>>
ValA == <<97>>

Hdr(n, s, v, e) == [name |-> n, sep |-> s, value |-> v, end |-> e]
HdrBytes(h) == h.name \o h.sep \o h.value \o h.end

\* the header lines: well-formed Connection lines, ...
ConnectionLines ==
    { Hdr(HdrConnection, ColonSp, v, CRLF) :
        v \in {ValClose, ValKeepAlive, ValKEEPALIVE, ValKeepalive} }
\* ... well-formed lines with a name outside the allow-list, ...
UnlistedLines ==
    { Hdr(NameXCustom, ColonSp, ValFoo, CRLF), Hdr(NameIfM, ColonSp, Val1, CRLF) }
\* ... and an ignored allow-listed line, lines without the colon, the space
\* or the '\r', and a line cut before its end
OtherLines ==
    { Hdr(HdrHost, ColonSp, ValA, CRLF),
      Hdr(HdrConnection, <<SP>>, ValClose, CRLF),
      Hdr(HdrCookie, <<COLON>>, Val1, CRLF),
      Hdr(HdrReferer, ColonSp, ValA, <<LF>>),
      Hdr(NameXCustom, ColonSp, ValFoo, <<>>) }
HeaderLines == ConnectionLines \cup UnlistedLines \cup OtherLines
\* at most MaxHdrs header lines in a request
MaxHdrs == 2
HeaderBlocks == UNION { [1..n -> HeaderLines] : n \in 0..MaxHdrs }

Req(w, m, u, s, e, hs, t) ==
    [kind |-> "request", ws |-> w, method |-> m, url |-> u, suffix |-> s,
     eol |-> e, hdrs |-> hs, tail |-> t]

LineBytes(r) == r.ws \o r.method \o r.url \o r.suffix \o r.eol
RECURSIVE BlockBytes(_)
BlockBytes(hs) == IF hs = <<>> THEN <<>> ELSE HdrBytes(Head(hs)) \o BlockBytes(Tail(hs))
AllBytes(r) == LineBytes(r) \o BlockBytes(r.hdrs) \o r.tail

\* request lines of every shape, without headers
LineRequests ==
    { Req(w, m, u, s, e, <<>>, CRLF) :
        w \in {<<>>, CRLF}, m \in {TokGet, TokHead, TokHead1, TokPost},
        u \in {UrlRoot, UrlA, UrlAb, UrlB, <<>>},
        s \in {Ver11, Ver10, Ver19, Ver20, <<>>}, e \in {CRLF, <<LF>>} }
\* good request lines followed by every header block, with and without the
\* empty line that ends the block
HeaderRequests ==
    { Req(<<>>, TokGet, UrlA, s, CRLF, hs, t) :
        s \in {Ver11, Ver10}, hs \in HeaderBlocks, t \in {CRLF, <<>>} }
\* only whitespace
BlankRequest == Req(CRLF, <<>>, <<>>, <<>>, CRLF, <<>>, <<>>)
\* a request longer than the buffer: a header value of BufSize bytes 'x'
LongRequest ==
    Req(<<>>, TokGet, UrlA, Ver11, CRLF,
        <<Hdr(NameXCustom, ColonSp, [i \in 1..BufSize |-> 120], CRLF)>>, CRLF)
\* requests of which read() delivers the first cut bytes only
CutBases ==
    { Req(<<>>, TokGet, UrlA, Ver11, CRLF,
          <<Hdr(HdrIfModifiedSince, ColonSp, ValA, CRLF)>>, CRLF),
      Req(<<>>, TokHead, UrlRoot, Ver10, CRLF,
          <<Hdr(HdrConnection, ColonSp, ValKeepAlive, CRLF)>>, CRLF) }

WithCut(r, n) == r @@ [cut |-> n]
Whole(r) == WithCut(r, Len(AllBytes(r)))

Requests ==
    { Whole(r) : r \in LineRequests \cup HeaderRequests \cup {BlankRequest, LongRequest} }
    \cup UNION { { WithCut(r, n) : n \in 1..(Len(AllBytes(r)) - 1) } : r \in CutBases }

\* the requests sent to a request object that has served a request before
ReuseRequests ==
    { Whole(Req(<<>>, TokGet, UrlA, s, CRLF, hs, CRLF)) :
        s \in {Ver11, Ver10},
        hs \in {<<>>} \cup { <<h>> : h \in ConnectionLines } }

\* what read() finds: a request, the end of the stream, or an error
Inputs(first) ==
    (IF first THEN Requests ELSE ReuseRequests)
    \cup { [kind |-> k] : k \in {"eof", "error"} }

\* the bytes read() stores: at most sizeof(buffer) of them
Delivered(r) ==
    IF r.kind = "request" THEN Prefix(Prefix(AllBytes(r), r.cut), BufSize) ELSE <<>>

\* the values a stack byte the program never wrote may hold
Garbage == {NUL, ChH, CR}

----------------------------------------------------------------------------
\* The state.

VARIABLES
    pc,          \* where lwan_process_request stands
    mem,         \* the stack memory around `buffer`
    bytes_read,  \* the local bytes_read
    p_buffer,    \* the local p_buffer
    request,     \* the lwan_request_t the caller passes
    served,      \* how many requests the request object has served before
    input,       \* what read() found
    obs,         \* what the invocation has done so far
    response,    \* the lwan_response_t of the request
    status,      \* the status passed to lwan_prepare_response_header
    headers,     \* the bytes lwan_prepare_response_header has written
    header_len   \* the value lwan_prepare_response_header returned

vars == <<pc, mem, bytes_read, p_buffer, request, served, input, obs,
          response, status, headers, header_len>>

encoder_vars == <<response, status, headers, header_len>>

\* a request object as its owner constructs it
FreshRequest ==
    [method |-> "HTTP_GET", url |-> NULL, url_len |-> 0, http_version |-> "HTTP_1_0",
     header_connection |-> NUL, is_keep_alive |-> FALSE]

NoMem == [data |-> <<>>, zero |-> {}, g |-> NUL]
NoInput == [kind |-> "none"]
NoResponse == [content_length |-> 0, mime_type |-> <<>>, headers |-> <<>>, has_headers |-> FALSE]

\* stages: the stages run, in order; failed: the stage that failed;
\* sent: the responses sent; calls: the handler calls; returned: the value
\* returned when it is the literal false; cursor: p_buffer after the method
\* token; path_acc, hdr_acc: the addresses _identify_http_path and
\* _parse_headers touched; eol: the address of the '\r' that ended the
\* request line; invalid: a cursor outside the mapped memory was dereferenced;
\* parsed: the URL view _identify_http_path set; prefix_len: the length of
\* the prefix the router matched
NoObs ==
    [stages |-> <<>>, failed |-> "none", sent |-> <<>>, calls |-> 0,
     returned_false |-> FALSE, cursor |-> NULL, path_acc |-> NoAcc,
     hdr_acc |-> NoAcc, eol |-> NULL, hdr_start |-> NULL, invalid |-> FALSE,
     parsed |-> [url |-> NULL, url_len |-> 0], prefix_len |-> 0]

Init ==
    /\ pc = "idle"
    /\ mem = NoMem
    /\ bytes_read = 0
    /\ p_buffer = NULL
    /\ request = FreshRequest
    /\ served = 0
    /\ input = NoInput
    /\ obs = NoObs
    /\ response = NoResponse
    /\ status = 0
    /\ headers = <<>>
    /\ header_len = 0

Ran(o, stage) == [o EXCEPT !.stages = Append(@, stage)]
\* lwan_default_response(l, request, st) after the stage failed
DefaultResponse(o, stage, st) ==
    [o EXCEPT !.failed = stage, !.sent = Append(@, [via |-> "default", status |-> st])]

----------------------------------------------------------------------------
\* lwan_process_request, one action per stage.

\* read() and its switch, and buffer[bytes_read] = '\0'
Read ==
    /\ pc = "idle"
    /\ \E r \in Inputs(served = 0), g \in Garbage :
        LET got == Delivered(r)
            n == IF r.kind = "error" THEN -1 ELSE Len(got)
            o == Ran(NoObs, "read")
        IN  /\ input' = r
            /\ bytes_read' = n
            /\ p_buffer' = NULL
            /\ IF n = 0 \/ n = -1
               THEN /\ mem' = [data |-> <<>>, zero |-> {}, g |-> g]
                    /\ obs' = [o EXCEPT !.failed = "read", !.returned_false = TRUE]
                    /\ pc' = "done"
               ELSE IF n = BufSize
               THEN /\ mem' = [data |-> got, zero |-> {}, g |-> g]
                    /\ obs' = DefaultResponse(o, "read", HTTP_TOO_LARGE)
                    /\ pc' = "done"
               ELSE /\ mem' = [data |-> got \o <<NUL>>, zero |-> {}, g |-> g]
                    /\ obs' = o
                    /\ pc' = "whitespace"
    /\ UNCHANGED <<request, served, encoder_vars>>

SkipWhitespace ==
    /\ pc = "whitespace"
    /\ LET p == IgnoreLeadingWhitespace(mem, BufAddr)
           o == Ran(obs, "whitespace")
       IN  /\ p_buffer' = p
           /\ IF Rd(mem, p) = NUL
              THEN /\ obs' = DefaultResponse(o, "whitespace", HTTP_BAD_REQUEST)
                   /\ pc' = "done"
              ELSE /\ obs' = o
                   /\ pc' = "method"
    /\ UNCHANGED <<mem, bytes_read, request, served, input, encoder_vars>>

IdentifyMethod ==
    /\ pc = "method"
    /\ \E r \in {IdentifyHttpMethod(mem, request, p_buffer)} :
       LET o == [Ran(obs, "method") EXCEPT !.cursor = r.p]
       IN  /\ p_buffer' = r.p
           /\ request' = r.req
           /\ IF r.p = NULL
              THEN /\ obs' = DefaultResponse(o, "method", HTTP_NOT_ALLOWED)
                   /\ pc' = "done"
              ELSE /\ obs' = o
                   /\ pc' = "path"
    /\ UNCHANGED <<mem, bytes_read, served, input, encoder_vars>>

IdentifyPath ==
    /\ pc = "path"
    /\ \E r \in {IdentifyHttpPath(mem, request, p_buffer, bytes_read)} :
       LET o == [Ran(obs, "path") EXCEPT
                    !.path_acc = r.acc,
                    !.eol = IF r.p = NULL THEN NULL ELSE r.p - 1,
                    !.hdr_start = r.p,
                    !.parsed = [url |-> r.req.url, url_len |-> r.req.url_len]]
       IN  /\ p_buffer' = r.p
           /\ request' = r.req
           /\ mem' = r.m
           /\ IF r.fault
              THEN /\ obs' = [o EXCEPT !.failed = "path"]
                   /\ pc' = "crashed"
              ELSE IF r.p = NULL
              THEN /\ obs' = DefaultResponse(o, "path", HTTP_BAD_REQUEST)
                   /\ pc' = "done"
              ELSE /\ obs' = o
                   /\ pc' = "headers"
    /\ UNCHANGED <<bytes_read, served, input, encoder_vars>>

\* _parse_headers.  A scan that leaves the mapped memory ends the process;
\* the dereference of a cursor outside the mapped memory ends the process
\* or, where the access goes through, reads some byte: a NUL ends the loop.
ParseHeaderBlock ==
    /\ pc = "headers"
    /\ \E r \in {ParseHeaders(mem, request, p_buffer, BufAddr + bytes_read, NoAcc)} :
       LET o == [Ran(obs, "headers") EXCEPT !.hdr_acc = r.acc,
                                            !.invalid = (r.status = "invalid")]
       IN  /\ request' = r.req
           /\ mem' = r.m
           /\ p_buffer' = r.ret
           /\ \/ /\ r.status = "ok"
                 /\ IF r.ret = NULL
                    THEN /\ obs' = DefaultResponse(o, "headers", HTTP_BAD_REQUEST)
                         /\ pc' = "done"
                    ELSE /\ obs' = o
                         /\ pc' = "flags"
              \/ /\ r.status = "invalid"
                 /\ obs' = o
                 /\ pc' \in {"crashed", "flags"}
              \/ /\ r.status = "fault"
                 /\ obs' = o
                 /\ pc' = "crashed"
    /\ UNCHANGED <<bytes_read, served, input, encoder_vars>>

Flags ==
    /\ pc = "flags"
    /\ request' = ComputeFlags(request)
    /\ obs' = Ran(obs, "flags")
    /\ pc' = "route"
    /\ UNCHANGED <<mem, bytes_read, p_buffer, served, input, encoder_vars>>

\* the lookup; on a match the prefix is stripped, the callback is called and
\* its status goes to lwan_response
Dispatch ==
    /\ pc = "route"
    /\ LET pre == LookupPrefix(CStr(mem, request.url))
           o == Ran(obs, "route")
       IN  IF pre = <<>>
           THEN /\ obs' = DefaultResponse(o, "route", HTTP_NOT_FOUND)
                /\ request' = request
           ELSE /\ request' = [request EXCEPT !.url = @ + Len(pre)]
                /\ \E st \in HandlerStatuses :
                     obs' = [o EXCEPT !.prefix_len = Len(pre),
                                      !.calls = @ + 1,
                                      !.sent = Append(@, [via |-> "response", status |-> st])]
    /\ pc' = "done"
    /\ UNCHANGED <<mem, bytes_read, p_buffer, served, input, encoder_vars>>

\* the caller passes the same request object to the next invocation
Reuse ==
    /\ pc = "done"
    /\ served < MaxServed
    /\ served' = served + 1
    /\ pc' = "idle"
    /\ mem' = NoMem
    /\ bytes_read' = 0
    /\ p_buffer' = NULL
    /\ input' = NoInput
    /\ obs' = NoObs
    /\ UNCHANGED <<request, encoder_vars>>

Next ==
    \/ Read
    \/ SkipWhitespace
    \/ IdentifyMethod
    \/ IdentifyPath
    \/ ParseHeaderBlock
    \/ Flags
    \/ Dispatch
    \/ Reuse

Spec == Init /\ [][Next]_vars

----------------------------------------------------------------------------
\* lwan_prepare_response_header.

\* _http_versions: "1.0", "1.1"
HttpVersions == [HTTP_1_0 |-> <<49, 46, 48>>, HTTP_1_1 |-> <<49, 46, 49>>]
\* _http_connection_type: "Close", "Keep-Alive"
HttpConnectionType ==
    <<<<67, 108, 111, 115, 101>>, <<75, 101, 101, 112, 45, 65, 108, 105, 118, 101>>>>
\* decimal_digits: "0123456789"
DecimalDigits == <<48, 49, 50, 51, 52, 53, 54, 55, 56, 57>>

\* lwan_http_status_as_string: "OK", "Not found", "Request too large"
StatusAsString(st) ==
    IF st = HTTP_OK THEN <<79, 75>>
    ELSE IF st = HTTP_NOT_FOUND THEN <<78, 111, 116, 32, 102, 111, 117, 110, 100>>
    ELSE <<82, 101, 113, 117, 101, 115, 116, 32, 116, 111, 111, 32, 108, 97, 114, 103, 101>>

RECURSIVE IntToString(_)
\* int_to_string: the decimal digits of a value that is not negative
IntToString(v) ==
    IF v < 10 THEN <<DecimalDigits[v + 1]>>
    ELSE IntToString(v \div 10) \o <<DecimalDigits[(v % 10) + 1]>>

\* APPEND_INT8
AppendInt8(v) ==
    << DecimalDigits[((v \div 100) % 10) + 1],
       DecimalDigits[((v \div 10) % 10) + 1],
       DecimalDigits[(v % 10) + 1] >>

RECURSIVE AppendHeaders(_, _)
\* the loop over response->headers from entry i up to the entry without a name
AppendHeaders(hs, i) ==
    IF hs[i].null THEN <<>>
    ELSE <<CR, LF>> \o hs[i].name \o <<COLON, SP>> \o hs[i].value \o AppendHeaders(hs, i + 1)

\* PrepareResponseHeader with the trailing NUL counted in the returned length
PrepareResponseHeader_CountNul(req, st, resp) ==
    LET conn == HttpConnectionType[IF req.is_keep_alive THEN 2 ELSE 1]
        written ==
            <<72, 84, 84, 80, 47>>
            \o Prefix(HttpVersions[req.http_version], 3)
            \o <<SP>> \o AppendInt8(st) \o <<SP>>
            \o StatusAsString(st)
            \o <<13, 10, 67, 111, 110, 116, 101, 110, 116, 45, 76, 101, 110, 103, 116, 104, 58, 32>>
            \o IntToString(resp.content_length)
            \o <<13, 10, 67, 111, 110, 116, 101, 110, 116, 45, 84, 121, 112, 101, 58, 32>>
            \o resp.mime_type
            \o <<13, 10, 67, 111, 110, 110, 101, 99, 116, 105, 111, 110, 58, 32>>
            \o Prefix(conn, IF req.is_keep_alive THEN 10 ELSE 5)
            \o (IF resp.has_headers THEN AppendHeaders(resp.headers, 1) ELSE <<>>)
            \o <<13, 10, 83, 101, 114, 118, 101, 114, 58, 32, 108, 119, 97, 110, 13, 10, 13, 10, 0>>
    IN  [headers |-> written, len |-> Len(written)]

\* the bytes written to headers[] and the value returned
PrepareResponseHeader(req, st, resp) ==
    LET conn == HttpConnectionType[IF req.is_keep_alive THEN 2 ELSE 1]
        written ==
            <<72, 84, 84, 80, 47>>
            \o Prefix(HttpVersions[req.http_version], 3)
            \o <<SP>> \o AppendInt8(st) \o <<SP>>
            \o StatusAsString(st)
            \o <<13, 10, 67, 111, 110, 116, 101, 110, 116, 45, 76, 101, 110, 103, 116, 104, 58, 32>>
            \o IntToString(resp.content_length)
            \o <<13, 10, 67, 111, 110, 116, 101, 110, 116, 45, 84, 121, 112, 101, 58, 32>>
            \o resp.mime_type
            \o <<13, 10, 67, 111, 110, 110, 101, 99, 116, 105, 111, 110, 58, 32>>
            \o Prefix(conn, IF req.is_keep_alive THEN 10 ELSE 5)
            \o (IF resp.has_headers THEN AppendHeaders(resp.headers, 1) ELSE <<>>)
            \o <<13, 10, 83, 101, 114, 118, 101, 114, 58, 32, 108, 119, 97, 110, 13, 10, 13, 10, 0>>
    IN  [headers |-> written, len |-> Len(written) - 1]

\* "text/plain", "text/html"
MimePlain == <<116, 101, 120, 116, 47, 112, 108, 97, 105, 110>>
MimeHtml == <<116, 101, 120, 116, 47, 104, 116, 109, 108>>
\* the extra headers "X-A: 1" and "X-B: 22", and the entry that ends the array
ExtraA == [null |-> FALSE, name |-> <<88, 45, 65>>, value |-> <<49>>]
ExtraB == [null |-> FALSE, name |-> <<88, 45, 66>>, value |-> <<50, 50>>]
Sentinel == [null |-> TRUE, name |-> <<>>, value |-> <<>>]
\* at most MaxExtra extra headers before the sentinel
MaxExtra == 2
ExtraLists ==
    { hs \o <<Sentinel>> : hs \in UNION { [1..n -> {ExtraA, ExtraB}] : n \in 0..MaxExtra } }
    \cup { <<ExtraA, Sentinel, ExtraB>> }
\* the largest content length
MaxContentLength == 1234
ContentLengths == {0, 7, 42, 100, MaxContentLength}
EncoderStatuses == {HTTP_OK, HTTP_NOT_FOUND, HTTP_TOO_LARGE}

Responses ==
    { [content_length |-> n, mime_type |-> mt, headers |-> hs, has_headers |-> TRUE] :
        n \in ContentLengths, mt \in {MimePlain, MimeHtml}, hs \in ExtraLists }
    \cup
    { [content_length |-> n, mime_type |-> mt, headers |-> <<>>, has_headers |-> FALSE] :
        n \in ContentLengths, mt \in {MimePlain, MimeHtml} }

EncInit ==
    /\ pc = "encode"
    /\ mem = NoMem
    /\ bytes_read = 0
    /\ p_buffer = NULL
    /\ \E v \in {"HTTP_1_0", "HTTP_1_1"}, ka \in BOOLEAN :
         request = [FreshRequest EXCEPT !.http_version = v, !.is_keep_alive = ka]
    /\ served = 0
    /\ input = NoInput
    /\ obs = NoObs
    /\ response \in Responses
    /\ status \in EncoderStatuses
    /\ headers = <<>>
    /\ header_len = 0

Encode ==
    /\ pc = "encode"
    /\ LET r == PrepareResponseHeader(request, status, response)
       IN  /\ headers' = r.headers
           /\ header_len' = r.len
    /\ pc' = "encoded"
    /\ UNCHANGED <<mem, bytes_read, p_buffer, request, served, input, obs, response, status>>

EncNext == Encode

SpecEncode == EncInit /\ [][EncNext]_vars

----------------------------------------------------------------------------
\* Properties.

InStages(stage) == \E i \in DOMAIN obs.stages : obs.stages[i] = stage
Elems(sq) == { sq[i] : i \in DOMAIN sq }
Sent(via, st) == <<[via |-> via, status |-> st]>>
ReadWhole(r) == r.kind = "request" /\ r.cut = Len(AllBytes(r)) /\ r.cut < BufSize
BufEnd == BufAddr + bytes_read

\* the order of the stages
StageOrder == <<"read", "whitespace", "method", "path", "headers", "flags", "route">>

\* a request whose first line is "<M>/<path> HTTP/1.<d>\r\n", read whole
WellFormedLine(r) ==
    /\ r.kind = "request"
    /\ Elems(r.ws) \subseteq Whitespace
    /\ r.method \in {TokGet, TokHead}
    /\ r.url # <<>> /\ r.url[1] = SLASH /\ CR \notin Elems(r.url)
    /\ Len(r.suffix) = 9 /\ SubSeq(r.suffix, 1, 8) = SubSeq(Ver11, 1, 8)
    /\ r.suffix[9] \in 48..57
    /\ r.eol = CRLF
    /\ r.cut >= Len(LineBytes(r))
    /\ Len(Delivered(r)) < BufSize

\* the stages up to _identify_http_path on the bytes of r, on a fresh request
LineOf(r, g) ==
    LET path(m, meth) == IdentifyHttpPath(m, meth.req, meth.p, Len(Delivered(r)))
        method(m) ==
            path(m, IdentifyHttpMethod(m, FreshRequest, IgnoreLeadingWhitespace(m, BufAddr)))
    IN  method([data |-> Delivered(r) \o <<NUL>>, zero |-> {}, g |-> g])

\* the stages up to _parse_headers on the bytes of r, on a fresh request
HeadersOf(r, g) ==
    LET headers_of(ln) == ParseHeaders(ln.m, ln.req, ln.p, BufAddr + Len(Delivered(r)), NoAcc)
    IN  headers_of(LineOf(r, g))

\* C1: every invocation ends in exactly one outcome, the one of the first
\* stage that fails in the order read, whitespace, method, path, headers,
\* route: no response and false for a read of 0 bytes or an error, TOO_LARGE
\* for a full buffer, BAD_REQUEST, NOT_ALLOWED, BAD_REQUEST, NOT_FOUND, or
\* else one handler call whose status is sent; never two responses, and no
\* stage after a failed one.
C1_OneOutcome ==
    /\ Len(obs.sent) <= 1 /\ obs.calls <= 1
    /\ obs.stages = Prefix(StageOrder, Len(obs.stages))
    /\ obs.failed # "none" => obs.stages # <<>> /\ obs.stages[Len(obs.stages)] = obs.failed
    /\ pc # "crashed"
    /\ pc = "done" =>
         /\ obs.failed = "read" =>
              \/ bytes_read \in {0, -1} /\ obs.sent = <<>> /\ obs.returned_false
              \/ bytes_read = BufSize /\ obs.sent = Sent("default", HTTP_TOO_LARGE)
         /\ (input.kind = "request" /\ Len(Delivered(input)) = BufSize) => obs.failed = "read"
         /\ obs.failed = "whitespace" => obs.sent = Sent("default", HTTP_BAD_REQUEST)
         /\ (input.kind = "request" /\ Len(Delivered(input)) \in 1..(BufSize - 1)
               /\ Elems(Delivered(input)) \subseteq Whitespace) => obs.failed = "whitespace"
         /\ obs.failed = "method" => obs.sent = Sent("default", HTTP_NOT_ALLOWED)
         /\ obs.failed \in {"path", "headers"} => obs.sent = Sent("default", HTTP_BAD_REQUEST)
         /\ obs.failed = "route" => obs.sent = Sent("default", HTTP_NOT_FOUND)
         /\ obs.failed = "none" =>
              /\ obs.calls = 1
              /\ \E st \in HandlerStatuses : obs.sent = Sent("response", st)
         /\ obs.failed # "none" => obs.calls = 0

\* C2: a request line "<M>/<path> HTTP/1.<d>\r\n" with M "GET " or "HEAD ",
\* after any leading whitespace, parses: method GET or HEAD, url the bytes of
\* "/<path>", url_len their count, version 1.0 for d = '0' and 1.1 otherwise;
\* but for the method, HEAD parses like GET with the same remainder.
C2_RequestLine ==
    (InStages("path") /\ WellFormedLine(input)) =>
        \E twin \in {LineOf([input EXCEPT !.method = TokGet], mem.g)} :
            /\ obs.failed # "path"
            /\ request.method = IF input.method = TokGet THEN "HTTP_GET" ELSE "HTTP_HEAD"
            /\ obs.parsed.url_len = Len(input.url)
            /\ CStr(mem, obs.parsed.url) = input.url
            /\ request.http_version =
                 IF input.suffix[9] = Ch0 THEN "HTTP_1_0" ELSE "HTTP_1_1"
            /\ twin.p # NULL
            /\ obs.parsed.url_len = twin.req.url_len
            /\ CStr(mem, obs.parsed.url) = CStr(twin.m, twin.req.url)
            /\ request.http_version = twin.req.http_version

\* a HEAD request line after leading whitespace has been parsed
C2_Witness ==
    /\ pc = "headers"
    /\ WellFormedLine(input)
    /\ input.method = TokHead /\ input.ws # <<>> /\ input.suffix = Ver10
    /\ request.method = "HTTP_HEAD" /\ request.http_version = "HTTP_1_0"

\* the requests of the keep-alive truth table: a well-formed line, then no
\* header or one well-formed Connection header, then the empty line
TruthTableRequest(r) ==
    /\ WellFormedLine(r) /\ ReadWhole(r)
    /\ r.suffix \in {Ver10, Ver11}
    /\ r.hdrs = <<>> \/ (Len(r.hdrs) = 1 /\ r.hdrs[1] \in ConnectionLines)
    /\ r.tail = CRLF

CarriesConnection(r, firsts) ==
    \E i \in DOMAIN r.hdrs : r.hdrs[i] \in ConnectionLines /\ r.hdrs[i].value[1] \in firsts

\* C3: after every parsed request is_keep_alive follows the request's own
\* bytes: for HTTP/1.1 true unless a Connection header starts with 'c' or 'C',
\* for HTTP/1.0 true only if one starts with 'k' or 'K'; on every invocation,
\* also of a request object that has served a request before.
C3_KeepAlive ==
    (InStages("flags") /\ TruthTableRequest(input)) =>
        request.is_keep_alive =
            IF input.suffix = Ver11
            THEN ~CarriesConnection(input, {99, 67})
            ELSE CarriesConnection(input, {107, 75})

RECURSIVE SplitLines(_)
\* the lines of s, each ended by "\r\n", then what follows the last "\r\n"
SplitLines(s) ==
    IF \E i \in 1..(Len(s) - 1) : s[i] = CR /\ s[i + 1] = LF
    THEN LET i == CHOOSE i \in 1..(Len(s) - 1) :
                    /\ s[i] = CR /\ s[i + 1] = LF
                    /\ \A j \in 1..(i - 1) : ~(s[j] = CR /\ s[j + 1] = LF)
         IN  <<SubSeq(s, 1, i - 1)>> \o SplitLines(SubSeq(s, i + 2, Len(s)))
    ELSE <<s>>

RECURSIVE DecValue(_)
\* the number a string of decimal digits denotes
DecValue(ds) ==
    IF ds = <<>> THEN 0 ELSE 10 * DecValue(SubSeq(ds, 1, Len(ds) - 1)) + (ds[Len(ds)] - 48)
IsDecimal(ds) ==
    /\ ds # <<>>
    /\ \A i \in DOMAIN ds : ds[i] \in 48..57
    /\ Len(ds) > 1 => ds[1] # 48

\* the extra headers before the sentinel
Extras(resp) ==
    IF ~resp.has_headers THEN <<>>
    ELSE LET n == CHOOSE n \in DOMAIN resp.headers :
                    resp.headers[n].null /\ \A j \in 1..(n - 1) : ~resp.headers[j].null
         IN  SubSeq(resp.headers, 1, n - 1)

\* "HTTP/1.1 200 OK\r\nContent-Length: 42\r\nContent-Type: text/plain\r\n
\*  Connection: Keep-Alive\r\nServer: lwan\r\n\r\n"
Block200 ==
    <<72, 84, 84, 80, 47, 49, 46, 49, 32, 50, 48, 48, 32, 79, 75, 13, 10,
      67, 111, 110, 116, 101, 110, 116, 45, 76, 101, 110, 103, 116, 104, 58, 32, 52, 50, 13, 10,
      67, 111, 110, 116, 101, 110, 116, 45, 84, 121, 112, 101, 58, 32,
      116, 101, 120, 116, 47, 112, 108, 97, 105, 110, 13, 10,
      67, 111, 110, 110, 101, 99, 116, 105, 111, 110, 58, 32,
      75, 101, 101, 112, 45, 65, 108, 105, 118, 101, 13, 10,
      83, 101, 114, 118, 101, 114, 58, 32, 108, 119, 97, 110, 13, 10, 13, 10>>

IsBlock200 ==
    /\ status = HTTP_OK /\ response.content_length = 42
    /\ response.mime_type = MimePlain /\ Extras(response) = <<>>
    /\ request.is_keep_alive /\ request.http_version = "HTTP_1_1"

\* C4: the encoder writes the status line "HTTP/<ver> <3 digits> <reason>",
\* Content-Length, Content-Type, Connection (Keep-Alive or Close), the extra
\* headers in list order up to the sentinel, "Server: lwan" and an empty line,
\* each ended by "\r\n" and nothing else; it returns the length of that block,
\* the byte after the block is NUL and is not counted; for 200, 42,
\* text/plain, keep-alive and no extra header the block is the spec's.
C4_HeaderBlock ==
    pc = "encoded" =>
        LET block == SubSeq(headers, 1, header_len)
            lines == SplitLines(block)
            extra == Extras(response)
            n == Len(extra)
            l1 == lines[1]
            clen == SubSeq(lines[2], 17, Len(lines[2]))
        IN  /\ header_len = Len(headers) - 1
            /\ headers[header_len + 1] = NUL
            /\ NUL \notin Elems(block)
            /\ Len(lines) = n + 7
            /\ SubSeq(l1, 1, 5) = <<72, 84, 84, 80, 47>>
            /\ SubSeq(l1, 6, 8) =
                 (IF request.http_version = "HTTP_1_0" THEN <<49, 46, 48>> ELSE <<49, 46, 49>>)
            /\ l1[9] = SP /\ l1[13] = SP
            /\ \A i \in 10..12 : l1[i] \in 48..57
            /\ DecValue(SubSeq(l1, 10, 12)) = status
            /\ SubSeq(l1, 14, Len(l1)) = StatusAsString(status)
            /\ SubSeq(lines[2], 1, 16) =
                 <<67, 111, 110, 116, 101, 110, 116, 45, 76, 101, 110, 103, 116, 104, 58, 32>>
            /\ IsDecimal(clen) /\ DecValue(clen) = response.content_length
            /\ lines[3] =
                 <<67, 111, 110, 116, 101, 110, 116, 45, 84, 121, 112, 101, 58, 32>>
                 \o response.mime_type
            /\ lines[4] =
                 <<67, 111, 110, 110, 101, 99, 116, 105, 111, 110, 58, 32>>
                 \o (IF request.is_keep_alive THEN ValKeepAlive
                     ELSE <<67, 108, 111, 115, 101>>)
            /\ \A i \in 1..n : lines[4 + i] = extra[i].name \o ColonSp \o extra[i].value
            /\ lines[n + 5] = <<83, 101, 114, 118, 101, 114, 58, 32, 108, 119, 97, 110>>
            /\ lines[n + 6] = <<>> /\ lines[n + 7] = <<>>
            /\ IsBlock200 => block = Block200 /\ header_len = Len(Block200)

\* the header block of the spec's example has been written
C4_Witness ==
    /\ pc = "encoded"
    /\ IsBlock200
    /\ response.has_headers
    /\ header_len > 0

\* C5: a request line that has not the shape "<url> HTTP/X.Y\r" fails with
\* BAD_REQUEST and _identify_http_path touches no byte before the cursor that
\* follows the method token (so none before the buffer): the length of the
\* line is checked before the 9 bytes are stepped back from the '\r'.
C5_NoAccessBelowCursor ==
    InStages("path") =>
        /\ obs.path_acc.lo >= obs.cursor
        /\ obs.cursor >= BufAddr
        /\ (WellFormedLine([input EXCEPT !.suffix = Ver11]) /\ Len(input.suffix) < 9) =>
               obs.failed = "path" /\ obs.sent = Sent("default", HTTP_BAD_REQUEST)

\* a well-formed header line whose name is not on the allow-list
Unlisted(h) ==
    /\ h.name \notin Elems(HeaderNames)
    /\ h.sep = ColonSp /\ h.end = CRLF
    /\ Elems(h.name \o h.value) \cap {CR, LF, NUL, COLON} = {}

\* a request, read whole by a fresh request object, whose first header line
\* is such a line
UnlistedFirst(r) ==
    /\ WellFormedLine(r) /\ ReadWhole(r)
    /\ r.hdrs # <<>> /\ Unlisted(r.hdrs[1])

\* r without its first header line
WithoutFirst(r) ==
    [r EXCEPT !.hdrs = Tail(@), !.cut = @ - Len(HdrBytes(r.hdrs[1]))]

\* C6: a header line whose name is not allow-listed changes no request field
\* and moves the cursor to the byte after its own '\n': parsing the line and
\* then a block gives the same request (Connection byte, keep-alive) as
\* parsing the block alone.
C6_UnlistedSkipped ==
    (served = 0 /\ UnlistedFirst(input)) =>
        /\ pc = "headers" =>
             \E line \in {BufAddr + Len(LineBytes(input))} :
             \E it \in {HeaderIter(mem, request, line, BufEnd)} :
                 /\ it.status = "next"
                 /\ it.p = line + Len(HdrBytes(input.hdrs[1]))
                 /\ it.req = request
        /\ InStages("headers") =>
             \E twin \in {HeadersOf(WithoutFirst(input), mem.g)} :
                 /\ request.header_connection = twin.req.header_connection
                 /\ ComputeFlags(request).is_keep_alive = ComputeFlags(twin.req).is_keep_alive

\* C7: when routing matches a prefix, the view the handler gets is the suffix
\* of the parsed URL after the prefix: url advanced by prefix_len, url_len
\* without the prefix, url + url_len still the end of the parsed URL.
C7_ViewIsSuffix ==
    obs.calls = 1 =>
        /\ request.url = obs.parsed.url + obs.prefix_len
        /\ request.url_len = obs.parsed.url_len - obs.prefix_len
        /\ request.url + request.url_len = obs.parsed.url + obs.parsed.url_len

\* C8: when request-line parsing succeeds the URL view is not empty, starts
\* with '/', lies between the byte after the method token and the '\r' of
\* the line, and the major version digit is '1'; so a line with "HTTP/2.0"
\* and a line whose URL has no leading '/' end in BAD_REQUEST.
C8_UrlView ==
    /\ (InStages("path") /\ obs.failed # "path") =>
         /\ obs.parsed.url_len >= 1
         /\ Rd(mem, obs.parsed.url) = SLASH
         /\ obs.parsed.url >= obs.cursor
         /\ obs.parsed.url + obs.parsed.url_len <= obs.eol
         /\ Rd(mem, obs.eol - 3) = Ch1
    /\ (InStages("path") /\ WellFormedLine([input EXCEPT !.suffix = Ver11])
          /\ input.suffix = Ver20) =>
         obs.failed = "path" /\ obs.sent = Sent("default", HTTP_BAD_REQUEST)
    /\ (InStages("path") /\ WellFormedLine([input EXCEPT !.url = UrlRoot])
          /\ (input.url = <<>> \/ input.url[1] # SLASH)) =>
         obs.failed = "path" /\ obs.sent = Sent("default", HTTP_BAD_REQUEST)

\* C9: header parsing ends and is a success: a listed name without its colon,
\* space or line end is skipped, and a last line without '\n' stops the loop,
\* the request going on to the flags, with no dereference of a null or
\* invalid cursor.
C9_HeadersSucceed ==
    InStages("headers") =>
        /\ ~obs.invalid
        /\ obs.failed # "headers"
        /\ pc # "crashed"

\* C10: with bytes_read below the capacity no parsing step reads past the NUL
\* at buffer[bytes_read]: the search for '\r' stays in the bytes read, so a
\* request without '\r' fails with BAD_REQUEST, and the header parser's
\* probe and its skip over a listed name stay in them too.
C10_NoReadPastEnd ==
    /\ InStages("path") =>
         /\ obs.path_acc.hi <= BufEnd
         /\ CR \notin Elems(Delivered(input)) =>
              obs.failed = "path" /\ obs.sent = Sent("default", HTTP_BAD_REQUEST)
    /\ InStages("headers") => obs.hdr_acc.hi <= BufEnd

====
